---- MODULE Spec2Model ----
(***************************************************************************)
(* Model of app.py: the chatbot backend of the Ananta dashboard.           *)
(*                                                                         *)
(* The module body of app.py resolves the reply backend once, when the     *)
(* module is imported (action Startup).  Afterwards every POST             *)
(* /get_response is handled by get_response(): it parses the body,         *)
(* validates the message and dispatches to one of get_bot_reply_simple,    *)
(* get_bot_reply_openai or get_bot_reply_gemini.  The handler runs in a    *)
(* worker thread of the HTTP server; it blocks in the provider call, which *)
(* is where other workers interleave.                                      *)
(*                                                                         *)
(* Text is modelled as a sequence of one-character strings so that         *)
(* lower(), strip(), the "in" containment test and f-string concatenation  *)
(* are computed, not assumed.  The element "EMDASH" stands for the single  *)
(* character U+2014 of two reply texts.                                    *)
(***************************************************************************)
EXTENDS Integers, Sequences, FiniteSets, TLC

\* ------------------------------------------------------------------------
\* Bounds of the model
\* ------------------------------------------------------------------------
\* longest generated message over MsgAlphabet
MaxMsgLen == 2
\* worker threads handling requests at the same time in SpecConc
NumWorkers == 2

\* ------------------------------------------------------------------------
\* Text constants of app.py and of the inputs
\* ------------------------------------------------------------------------
S_simple ==
    <<"s", "i", "m", "p", "l", "e">>
S_openai ==
    <<"o", "p", "e", "n", "a", "i">>
S_gemini ==
    <<"g", "e", "m", "i", "n", "i">>
S_OpenAI ==
    <<"O", "p", "e", "n", "A", "I">>
S_GEMINI ==
    <<"G", "E", "M", "I", "N", "I">>
S_foo ==
    <<"f", "o", "o">>
S_key ==
    <<"s", "k", "-", "1">>
REPLY_GREETING ==
    <<"H", "i", " ", "t", "h", "e", "r", "e", "!", " ", "H", "o", "w", " ", "c", "a", "n", " ",
      "I", " ", "h", "e", "l", "p", " ", "y", "o", "u", " ", "t", "o", "d", "a", "y", "?">>
REPLY_COURSES ==
    <<"Y", "o", "u", " ", "c", "a", "n", " ", "f", "i", "n", "d", " ", "y", "o", "u", "r", " ",
      "c", "o", "u", "r", "s", "e", "s", " ", "u", "n", "d", "e", "r", " ", "t", "h", "e", " ",
      "C", "o", "u", "r", "s", "e", "s", " ", "s", "e", "c", "t", "i", "o", "n", " ", "o", "n",
      " ", "t", "h", "e", " ", "d", "a", "s", "h", "b", "o", "a", "r", "d", ".">>
REPLY_ASSIGNMENT ==
    <<"W", "h", "i", "c", "h", " ", "s", "u", "b", "j", "e", "c", "t", " ", "i", "s", " ", "t",
      "h", "e", " ", "a", "s", "s", "i", "g", "n", "m", "e", "n", "t", " ", "f", "o", "r", "?",
      " ", "I", " ", "c", "a", "n", " ", "h", "e", "l", "p", " ", "w", "i", "t", "h", " ", "t",
      "i", "p", "s", " ", "a", "n", "d", " ", "r", "e", "s", "o", "u", "r", "c", "e", "s", ".">>
REPLY_HELP ==
    <<"T", "e", "l", "l", " ", "m", "e", " ", "w", "h", "a", "t", " ", "y", "o", "u", " ", "n",
      "e", "e", "d", " ", "h", "e", "l", "p", " ", "w", "i", "t", "h", " ", "EMDASH", " ", "s",
      "t", "u", "d", "y", " ", "p", "l", "a", "n", ",", " ", "a", "s", "s", "i", "g", "n", "m",
      "e", "n", "t", "s", ",", " ", "o", "r", " ", "r", "e", "s", "o", "u", "r", "c", "e", "s", "?">>
REPLY_FALLBACK ==
    <<"I", "'", "m", " ", "s", "t", "i", "l", "l", " ", "l", "e", "a", "r", "n", "i", "n", "g",
      " ", "EMDASH", " ", "c", "a", "n", " ", "y", "o", "u", " ", "r", "e", "p", "h", "r", "a",
      "s", "e", " ", "t", "h", "a", "t", " ", "o", "r", " ", "a", "s", "k", " ", "a", "b", "o",
      "u", "t", " ", "c", "o", "u", "r", "s", "e", "s", ",", " ", "a", "s", "s", "i", "g", "n",
      "m", "e", "n", "t", "s", " ", "o", "r", " ", "l", "o", "g", "i", "n", "?">>
system_prompt ==
    <<"Y", "o", "u", " ", "a", "r", "e", " ", "A", "n", "a", "n", "t", "a", ",", " ", "a", "n",
      " ", "e", "d", "u", "c", "a", "t", "i", "o", "n", "a", "l", " ", "a", "s", "s", "i", "s",
      "t", "a", "n", "t", " ", "f", "o", "r", " ", "s", "t", "u", "d", "e", "n", "t", "s", ".",
      " ", "B", "e", " ", "c", "o", "n", "c", "i", "s", "e", ",", " ", "h", "e", "l", "p", "f",
      "u", "l", ",", " ", "a", "n", "d", " ", "f", "r", "i", "e", "n", "d", "l", "y", ".">>
KW_hello ==
    <<"h", "e", "l", "l", "o">>
KW_hi ==
    <<"h", "i">>
KW_course ==
    <<"c", "o", "u", "r", "s", "e">>
KW_courses ==
    <<"c", "o", "u", "r", "s", "e", "s">>
KW_assignment ==
    <<"a", "s", "s", "i", "g", "n", "m", "e", "n", "t">>
KW_help ==
    <<"h", "e", "l", "p">>
KW_assignments ==
    <<"a", "s", "s", "i", "g", "n", "m", "e", "n", "t", "s">>
KW_login ==
    <<"l", "o", "g", "i", "n">>
PROMPT_PREFIX ==
    <<"U", "s", "e", "r", ":", " ">>
PROMPT_SUFFIX ==
    <<"\n", "A", "s", "s", "i", "s", "t", "a", "n", "t", ":">>
M_precedence ==
    <<"h", "e", "l", "l", "o", ",", " ", "I", " ", "n", "e", "e", "d", " ", "h", "e", "l", "p",
      " ", "w", "i", "t", "h", " ", "a", "n", " ", "a", "s", "s", "i", "g", "n", "m", "e", "n", "t">>
M_courses ==
    <<"w", "h", "a", "t", " ", "c", "o", "u", "r", "s", "e", "s", " ", "a", "r", "e", " ", "a",
      "v", "a", "i", "l", "a", "b", "l", "e">>
M_none ==
    <<"x", "y", "z", "1", "2", "3">>
M_HELLO ==
    <<"H", "E", "L", "L", "O">>
M_assign_help ==
    <<"H", "e", "l", "p", " ", "w", "i", "t", "h", " ", "m", "y", " ", "A", "s", "s", "i", "g",
      "n", "m", "e", "n", "t">>
M_help ==
    <<"p", "l", "e", "a", "s", "e", " ", "h", "e", "l", "p">>
M_padded ==
    <<" ", " ", "m", "y", " ", "c", "o", "u", "r", "s", "e", " ">>
ERR_INVALID_JSON ==
    <<"I", "n", "v", "a", "l", "i", "d", " ", "J", "S", "O", "N", " ", "b", "o", "d", "y">>
ERR_NO_MESSAGE ==
    <<"N", "o", " ", "m", "e", "s", "s", "a", "g", "e", " ", "p", "r", "o", "v", "i", "d", "e", "d">>
EXC_boom ==
    <<"c", "o", "n", "n", "e", "c", "t", "i", "o", "n", " ", "r", "e", "s", "e", "t">>
EXC_INDEX ==
    <<"l", "i", "s", "t", " ", "i", "n", "d", "e", "x", " ", "o", "u", "t", " ", "o", "f", " ",
      "r", "a", "n", "g", "e">>
EXC_KEY ==
    <<"'", "m", "e", "s", "s", "a", "g", "e", "'">>
EXC_STRIP ==
    <<"'", "N", "o", "n", "e", "T", "y", "p", "e", "'", " ", "o", "b", "j", "e", "c", "t", " ",
      "h", "a", "s", " ", "n", "o", " ", "a", "t", "t", "r", "i", "b", "u", "t", "e", " ", "'",
      "s", "t", "r", "i", "p", "'">>
T_answer ==
    <<" ", "S", "t", "u", "d", "y", " ", "d", "a", "i", "l", "y", ".", " ">>
T_direct ==
    <<"d", "i", "r", "e", "c", "t", " ", "t", "e", "x", "t">>
T_nested ==
    <<"n", "e", "s", "t", "e", "d", " ", "t", "e", "x", "t">>
T_repr ==
    <<"<", "G", "e", "n", "e", "r", "a", "t", "e", "C", "o", "n", "t", "e", "n", "t", "R", "e",
      "s", "p", "o", "n", "s", "e", ">">>

\* default of os.getenv("OPENAI_MODEL", ...) and os.getenv("GEMINI_MODEL", ...)
OPENAI_MODEL == "gpt-3.5-turbo"
GEMINI_MODEL == "gemini-2.5-flash"

\* Python's None, and an unset environment variable: a value that is no text
None == <<"None">>

\* ------------------------------------------------------------------------
\* Text operations
\* ------------------------------------------------------------------------
Whitespace == {" ", "\t", "\n"}

LowerChar(c) ==
    CASE c = "A" -> "a" [] c = "B" -> "b" [] c = "C" -> "c" [] c = "D" -> "d"
      [] c = "E" -> "e" [] c = "F" -> "f" [] c = "G" -> "g" [] c = "H" -> "h"
      [] c = "I" -> "i" [] c = "J" -> "j" [] c = "K" -> "k" [] c = "L" -> "l"
      [] c = "M" -> "m" [] c = "N" -> "n" [] c = "O" -> "o" [] c = "P" -> "p"
      [] c = "Q" -> "q" [] c = "R" -> "r" [] c = "S" -> "s" [] c = "T" -> "t"
      [] c = "U" -> "u" [] c = "V" -> "v" [] c = "W" -> "w" [] c = "X" -> "x"
      [] c = "Y" -> "y" [] c = "Z" -> "z" [] OTHER -> c

\* str.lower()
Lower(s) == [k \in 1..Len(s) |-> LowerChar(s[k])]

RECURSIVE LStrip(_)
LStrip(s) == IF s # <<>> /\ Head(s) \in Whitespace THEN LStrip(Tail(s)) ELSE s

RECURSIVE RStrip(_)
RStrip(s) ==
    IF s # <<>> /\ s[Len(s)] \in Whitespace THEN RStrip(SubSeq(s, 1, Len(s) - 1)) ELSE s


\* Strip that trims nothing
Strip_identity(s) == s

\* str.strip()
Strip(s) == RStrip(LStrip(s))

\* kw in text
Contains(text, kw) ==
    \E k \in 0..(Len(text) - Len(kw)) : SubSeq(text, k + 1, k + Len(kw)) = kw

\* truth value of an optional text: None and "" are false
TruthyText(s) == s # None /\ s # <<>>

\* ------------------------------------------------------------------------
\* JSON values of a request body
\* ------------------------------------------------------------------------
JNull == [t |-> "null", v |-> <<>>]
JStr(s) == [t |-> "str", v |-> s]
JNum(d) == [t |-> "num", v |-> <<d>>]
JBool(b) == [t |-> "bool", v |-> <<b>>]
JList(items) == [t |-> "list", v |-> items]
\* a JSON object without a "message" key, and one with it
JObjEmpty == [t |-> "obj", v |-> <<>>, has_message |-> FALSE, message |-> JNull]
JObj(m) == [t |-> "obj", v |-> <<>>, has_message |-> TRUE, message |-> m]

\* bool(x) of a parsed JSON value
Truthy(j) ==
    CASE j.t = "null" -> FALSE
      [] j.t = "str" -> j.v # <<>>
      [] j.t = "num" -> j.v # <<"0">>
      [] j.t = "bool" -> j.v = <<"true">>
      [] j.t = "list" -> j.v # <<>>
      [] OTHER -> TRUE

\* a request body: text that is not JSON, an empty body, or a JSON document
BadBody(kind) == [raw |-> kind, data |-> JNull]
JsonBody(d) == [raw |-> "json", data |-> d]

\* ------------------------------------------------------------------------
\* Inputs
\* ------------------------------------------------------------------------
MsgAlphabet == {"h", "i", "H", " "}

RECURSIVE TextsUpTo(_)
TextsUpTo(n) ==
    IF n = 0 THEN {<<>>}
    ELSE LET shorter == TextsUpTo(n - 1)
         IN shorter \cup {Append(s, c) : s \in shorter, c \in MsgAlphabet}

FixedMessages ==
    {M_precedence, M_courses, M_none, M_HELLO, M_assign_help, M_help, M_padded,
     KW_assignment, <<"\t", "\n">>}

Messages == FixedMessages \cup TextsUpTo(MaxMsgLen)

MessageValues ==
    {JStr(m) : m \in Messages}
      \cup {JNull, JNum("0"), JNum("5"), JBool("false"), JBool("true"),
            JList(<<>>), JList(<<"x">>)}

Bodies ==
    {BadBody("garbage"), BadBody("empty")}
      \cup {JsonBody(d) : d \in {JNull, JNum("7"), JList(<<>>), JStr(KW_hi), JObjEmpty}}
      \cup {JsonBody(JObj(m)) : m \in MessageValues}

\* values of the environment variables
RequestedBackends == {None, <<>>, S_simple, S_openai, S_gemini, S_OpenAI, S_GEMINI, S_foo}
Credentials == {None, <<>>, S_key}

Environments ==
    [CHATBOT_BACKEND : RequestedBackends, OPENAI_API_KEY : Credentials,
     GEMINI_API_KEY : Credentials]

\* ------------------------------------------------------------------------
\* State
\* ------------------------------------------------------------------------
VARIABLES
    env,               \* os.environ, as far as app.py reads it
    openai_available,  \* _openai_available: "import openai" succeeded
    gemini_available,  \* _gemini_available: "from google import genai" succeeded
    phase,             \* "import" while the module body runs, then "serving" or "crashed"
    BACKEND,           \* the module global BACKEND
    genai_client,      \* the module global genai_client
    reqs               \* per worker thread: the request it is handling

vars == <<env, openai_available, gemini_available, phase, BACKEND, genai_client, reqs>>

config == <<env, openai_available, gemini_available>>

Workers == DOMAIN reqs

NoRequest == [api |-> "none"]
NoOutcome == [kind |-> "none"]
NoResponse == [handled |-> TRUE, status |-> 0, json |-> <<>>, exc |-> "none"]

Idle ==
    [pc |-> "idle", body |-> BadBody("none"), user_message |-> None, sent |-> NoRequest,
     outcome |-> NoOutcome, calls |-> 0, invoked |-> {}, resp |-> NoResponse]

\* ------------------------------------------------------------------------
\* Module body: backend resolution (runs once, at import)
\* ------------------------------------------------------------------------
\* os.getenv(name, default)
getenv(e, name, default) == IF e[name] = None THEN default ELSE e[name]


\* InitOpenAI with the credential tested against None only
InitOpenAI_none_only(b, available, key) ==
    IF b = S_openai
    THEN IF ~available THEN S_simple
         ELSE IF key = None THEN S_simple
         ELSE b
    ELSE b

\* if BACKEND == "openai": ...
InitOpenAI(b, available, key) ==
    IF b = S_openai
    THEN IF ~available THEN S_simple
         ELSE IF ~TruthyText(key) THEN S_simple
         ELSE b
    ELSE b


\* InitGemini without the test of _gemini_available
InitGemini_no_library_test(b, available, key) ==
    IF b = S_gemini
    THEN IF ~TruthyText(key) THEN S_simple ELSE b
    ELSE b

\* if BACKEND == "gemini": ...
InitGemini(b, available, key) ==
    IF b = S_gemini
    THEN IF ~available THEN S_simple
         ELSE IF ~TruthyText(key) THEN S_simple
         ELSE b
    ELSE b

\* the value of BACKEND when the module body has run
ResolveBackend(e, oa, ga) ==
    LET b0 == Lower(getenv(e, "CHATBOT_BACKEND", S_simple))
        b1 == InitOpenAI(b0, oa, e.OPENAI_API_KEY)
    IN InitGemini(b1, ga, e.GEMINI_API_KEY)

\* genai.Client(api_key=...) returns a client, or raises TypeError and
\* genai.Client() returns one, or the construction raises and the import fails
ClientCtorOutcomes == {"client(api_key)", "client()", "raise"}

Startup ==
    /\ phase = "import"
    /\ LET b == ResolveBackend(env, openai_available, gemini_available)
       IN /\ BACKEND' = b
          /\ IF b = S_gemini
             THEN \E c \in ClientCtorOutcomes :
                    /\ genai_client' = (IF c = "raise" THEN "undefined" ELSE c)
                    /\ phase' = (IF c = "raise" THEN "crashed" ELSE "serving")
             ELSE /\ genai_client' = "undefined"
                  /\ phase' = "serving"
    /\ UNCHANGED <<config, reqs>>

\* ------------------------------------------------------------------------
\* Reply strategies
\* ------------------------------------------------------------------------

\* get_bot_reply_simple with the greeting rule tested after the assignment rule
get_bot_reply_simple_reordered(user_message) ==
    LET text == Lower(user_message)
    IN IF Contains(text, KW_course) \/ Contains(text, KW_courses) THEN REPLY_COURSES
       ELSE IF Contains(text, KW_assignment) THEN REPLY_ASSIGNMENT
       ELSE IF Contains(text, KW_hello) \/ Contains(text, KW_hi) THEN REPLY_GREETING
       ELSE IF Contains(text, KW_help) THEN REPLY_HELP
       ELSE REPLY_FALLBACK

\* def get_bot_reply_simple(user_message)
get_bot_reply_simple(user_message) ==
    LET text == Lower(user_message)
    IN IF Contains(text, KW_hello) \/ Contains(text, KW_hi) THEN REPLY_GREETING
       ELSE IF Contains(text, KW_course) \/ Contains(text, KW_courses) THEN REPLY_COURSES
       ELSE IF Contains(text, KW_assignment) THEN REPLY_ASSIGNMENT
       ELSE IF Contains(text, KW_help) THEN REPLY_HELP
       ELSE REPLY_FALLBACK

\* result of a strategy: a returned value or a raised exception with its str()
Return(value) == [ok |-> TRUE, value |-> value]
Raise(text) == [ok |-> FALSE, value |-> text]

\* what the provider call does: it raises, or it returns a response object
ExceptionTexts == {<<>>, EXC_boom}
Raised == {[kind |-> "raise", text |-> e] : e \in ExceptionTexts}

\* arguments of openai.ChatCompletion.create in get_bot_reply_openai
openai_request(user_message) ==
    [api |-> "openai", model |-> OPENAI_MODEL,
     messages |-> <<[role |-> "system", content |-> system_prompt],
                    [role |-> "user", content |-> user_message]>>,
     max_tokens |-> 250, n |-> 1]

OpenAIChoices ==
    {[has_message |-> FALSE, content |-> None]}
      \cup {[has_message |-> TRUE, content |-> c] : c \in {None, <<>>, T_answer}}

OpenAIOutcomes ==
    Raised \cup {[kind |-> "resp", choices |-> <<>>]}
           \cup {[kind |-> "resp", choices |-> <<c>>] : c \in OpenAIChoices}

\* get_bot_reply_openai from the return of the create call on
get_bot_reply_openai(o) ==
    IF o.kind = "raise" THEN Raise(o.text)
    ELSE IF o.choices = <<>> THEN Raise(EXC_INDEX)
    ELSE LET choice == o.choices[1]
         IN IF ~choice.has_message THEN Raise(EXC_KEY)
            ELSE IF choice.content = None THEN Raise(EXC_STRIP)
            ELSE Return(Strip(choice.content))

\* arguments of genai_client.models.generate_content in get_bot_reply_gemini
gemini_request(user_message) ==
    [api |-> "gemini", model |-> GEMINI_MODEL,
     contents |-> PROMPT_PREFIX \o user_message \o PROMPT_SUFFIX,
     config |-> [max_output_tokens |-> 300, candidate_count |-> 1]]

\* shapes of a Gemini response object
GeminiItems ==
    {[dict |-> FALSE, has_text |-> FALSE, text |-> None],
     [dict |-> TRUE, has_text |-> FALSE, text |-> None]}
      \cup {[dict |-> TRUE, has_text |-> TRUE, text |-> t] : t \in {None, <<>>, T_nested}}

GeminiContents ==
    {[k |-> "other", items |-> <<>>], [k |-> "list", items |-> <<>>]}
      \cup {[k |-> kk, items |-> <<it>>] : kk \in {"list", "tuple"}, it \in GeminiItems}

GeminiElements ==
    {[dict |-> FALSE, has_content |-> FALSE, content |-> [k |-> "other", items |-> <<>>]],
     [dict |-> TRUE, has_content |-> FALSE, content |-> [k |-> "other", items |-> <<>>]]}
      \cup {[dict |-> TRUE, has_content |-> TRUE, content |-> c] : c \in GeminiContents}

GeminiOutputs ==
    {[k |-> "absent", items |-> <<>>], [k |-> "other", items |-> <<>>]}
      \cup {[k |-> kk, items |-> <<>>] : kk \in {"list", "tuple"}}
      \cup {[k |-> kk, items |-> <<el>>] : kk \in {"list", "tuple"}, el \in GeminiElements}

GeminiResponses ==
    {[has_text |-> FALSE, text |-> None, output |-> out] : out \in GeminiOutputs}
      \cup {[has_text |-> TRUE, text |-> t, output |-> out] :
              t \in {None, <<>>, T_direct}, out \in GeminiOutputs}

GeminiOutcomes == Raised \cup {[kind |-> "resp", response |-> r] : r \in GeminiResponses}

\* str(response)
str_response(response) == T_repr


\* get_bot_reply_gemini without the extraction from the output structure
get_bot_reply_gemini_no_nested(o) ==
    IF o.kind = "raise" THEN Raise(o.text)
    ELSE LET response == o.response
         IN IF response.has_text /\ TruthyText(response.text) THEN Return(response.text)
            ELSE Return(str_response(response))

\* get_bot_reply_gemini from the return of the generate_content call on
get_bot_reply_gemini(o) ==
    IF o.kind = "raise" THEN Raise(o.text)
    ELSE LET response == o.response
             outputs == response.output
             first == outputs.items[1]
             content == first.content
             item == content.items[1]
         IN IF response.has_text /\ TruthyText(response.text) THEN Return(response.text)
            ELSE IF /\ outputs.k \in {"list", "tuple"}
                    /\ Len(outputs.items) > 0
                    /\ first.dict
                    /\ first.has_content
                    /\ content.k = "list"
                    /\ Len(content.items) > 0
                    /\ item.dict
                    /\ item.has_text
                 THEN Return(item.text)
            ELSE Return(str_response(response))

\* ------------------------------------------------------------------------
\* POST /get_response
\* ------------------------------------------------------------------------
\* return jsonify(fields), status
Jsonify(fields, status) == [handled |-> TRUE, status |-> status, json |-> fields, exc |-> "none"]

\* an exception that leaves get_response: Flask answers 500 with its own error page
Unhandled(exc) == [handled |-> FALSE, status |-> 500, json |-> <<>>, exc |-> exc]

\* request.get_json(force=True)
get_json(body) ==
    IF body.raw = "json" THEN [ok |-> TRUE, data |-> body.data]
    ELSE [ok |-> FALSE, data |-> JNull]

\* data.get("message") of a dict
dict_get_message(data) == IF data.has_message THEN data.message ELSE JNull

\* return jsonify({"reply": reply})
ReplyResponse(reply) == Jsonify([reply |-> reply], 200)


\* GenerationFailed that hides the description of the exception
GenerationFailed_generic(user_message, e) == Jsonify([error |-> ERR_INVALID_JSON], 500)

\* GenerationFailed that answers with the rule-based reply instead
GenerationFailed_fallback(user_message, e) == ReplyResponse(get_bot_reply_simple(user_message))

\* except Exception as e: return jsonify({"error": str(e)}), 500
GenerationFailed(user_message, e) == Jsonify([error |-> e], 500)

\* the if/elif/else on BACKEND inside the try block, up to the provider call
Dispatch(r, b) ==
    IF b = S_openai
    THEN [r EXCEPT !.pc = "calling", !.sent = openai_request(r.user_message),
                   !.calls = @ + 1, !.invoked = @ \cup {"openai"}]
    ELSE IF b = S_gemini
    THEN [r EXCEPT !.pc = "calling", !.sent = gemini_request(r.user_message),
                   !.calls = @ + 1, !.invoked = @ \cup {"gemini"}]
    ELSE [r EXCEPT !.pc = "done", !.invoked = @ \cup {"simple"},
                   !.resp = ReplyResponse(get_bot_reply_simple(r.user_message))]

\* get_response from its entry to its return or to the provider call
Handle(r, b) ==
    LET parsed == get_json(r.body)
        data == parsed.data
        raw == dict_get_message(data)
        m == IF Truthy(raw) THEN raw ELSE JStr(<<>>)
        user_message == Strip(m.v)
    IN IF ~parsed.ok
       THEN [r EXCEPT !.pc = "done", !.resp = Jsonify([error |-> ERR_INVALID_JSON], 400)]
       ELSE IF data.t # "obj"
       THEN [r EXCEPT !.pc = "done", !.resp = Unhandled("AttributeError")]
       ELSE IF m.t # "str"
       THEN [r EXCEPT !.pc = "done", !.resp = Unhandled("AttributeError")]
       ELSE IF user_message = <<>>
       THEN [r EXCEPT !.pc = "done", !.user_message = user_message,
                      !.resp = Jsonify([error |-> ERR_NO_MESSAGE], 400)]
       ELSE Dispatch([r EXCEPT !.user_message = user_message], b)


\* Complete that also fails when another worker's request has just failed
Complete_shared(r, o) ==
    LET result == IF r.sent.api = "openai" THEN get_bot_reply_openai(o)
                  ELSE get_bot_reply_gemini(o)
        tripped == \E j \in Workers : reqs[j].pc = "done" /\ reqs[j].resp.status = 500
    IN [r EXCEPT !.pc = "done", !.outcome = o,
                 !.resp = IF result.ok /\ ~tripped THEN ReplyResponse(result.value)
                          ELSE GenerationFailed(r.user_message, result.value)]

\* get_response from the return of the provider call to its return
Complete(r, o) ==
    LET result == IF r.sent.api = "openai" THEN get_bot_reply_openai(o)
                  ELSE get_bot_reply_gemini(o)
    IN [r EXCEPT !.pc = "done", !.outcome = o,
                 !.resp = IF result.ok THEN ReplyResponse(result.value)
                          ELSE GenerationFailed(r.user_message, result.value)]

\* a request arrives at worker i
Receive(i, bodies) ==
    /\ phase = "serving"
    /\ reqs[i].pc \in {"idle", "done"}
    /\ \E body \in bodies : reqs' = [reqs EXCEPT ![i] = [Idle EXCEPT !.pc = "received", !.body = body]]
    /\ UNCHANGED <<config, phase, BACKEND, genai_client>>

\* worker i runs get_response until it returns or blocks in the provider call
HandleRequest(i) ==
    /\ phase = "serving"
    /\ reqs[i].pc = "received"
    /\ reqs' = [reqs EXCEPT ![i] = Handle(reqs[i], BACKEND)]
    /\ UNCHANGED <<config, phase, BACKEND, genai_client>>

\* the provider call of worker i returns or raises; get_response runs to its end
ProviderReturn(i, openai_outcomes, gemini_outcomes) ==
    /\ phase = "serving"
    /\ reqs[i].pc = "calling"
    /\ \E o \in (IF reqs[i].sent.api = "openai" THEN openai_outcomes ELSE gemini_outcomes) :
         reqs' = [reqs EXCEPT ![i] = Complete(reqs[i], o)]
    /\ UNCHANGED <<config, phase, BACKEND, genai_client>>

\* ------------------------------------------------------------------------
\* Specifications
\* ------------------------------------------------------------------------
StartState(workers) ==
    /\ phase = "import"
    /\ BACKEND = None
    /\ genai_client = "undefined"
    /\ reqs = [w \in workers |-> Idle]

\* one worker, every environment, every body, every provider outcome
Init ==
    /\ env \in Environments
    /\ openai_available \in BOOLEAN
    /\ gemini_available \in BOOLEAN
    /\ StartState({1})

Next ==
    \/ Startup
    \/ \E i \in Workers : Receive(i, Bodies)
    \/ \E i \in Workers : HandleRequest(i)
    \/ \E i \in Workers : ProviderReturn(i, OpenAIOutcomes, GeminiOutcomes)

Spec == Init /\ [][Next]_vars

\* several workers at once, over a selection of the inputs
ConcEnvironments ==
    {[CHATBOT_BACKEND |-> b, OPENAI_API_KEY |-> S_key, GEMINI_API_KEY |-> S_key] :
        b \in {None, S_OpenAI, S_gemini}}

ConcBodies ==
    {BadBody("garbage"), JsonBody(JNull), JsonBody(JObjEmpty), JsonBody(JObj(JNum("5"))),
     JsonBody(JObj(JStr(KW_hi))), JsonBody(JObj(JStr(M_padded)))}

ConcOpenAIOutcomes ==
    Raised \cup {[kind |-> "resp", choices |-> <<[has_message |-> TRUE, content |-> T_answer]>>]}

ConcGeminiOutcomes ==
    Raised \cup {[kind |-> "resp", response |->
                    [has_text |-> TRUE, text |-> T_direct,
                     output |-> [k |-> "absent", items |-> <<>>]]]}

InitConc ==
    /\ env \in ConcEnvironments
    /\ openai_available = TRUE
    /\ gemini_available = TRUE
    /\ StartState(1..NumWorkers)

NextConc ==
    \/ Startup
    \/ \E i \in Workers : Receive(i, ConcBodies)
    \/ \E i \in Workers : HandleRequest(i)
    \/ \E i \in Workers : ProviderReturn(i, ConcOpenAIOutcomes, ConcGeminiOutcomes)

SpecConc == InitConc /\ [][NextConc]_vars

\* ------------------------------------------------------------------------
\* Vocabulary of the properties
\* ------------------------------------------------------------------------
\* the requested backend after normalisation (unset means the default)
Requested == Lower(IF env.CHATBOT_BACKEND = None THEN S_simple ELSE env.CHATBOT_BACKEND)

NonEmptyCredential(key) == key # None /\ Len(key) > 0

\* the strategy the handler's if/elif/else selects for the current BACKEND
Selected ==
    IF BACKEND = S_openai THEN "openai" ELSE IF BACKEND = S_gemini THEN "gemini" ELSE "simple"

Started == phase # "import"

Blank(s) == \A k \in 1..Len(s) : s[k] \in Whitespace

\* the body is a JSON object whose message is a text with a non-blank character
ValidBody(body) ==
    /\ body.raw = "json"
    /\ body.data.t = "obj"
    /\ body.data.has_message
    /\ body.data.message.t = "str"
    /\ ~Blank(body.data.message.v)

\* the body is a JSON object whose message is missing, null, empty or blank
NoMessageBody(body) ==
    /\ body.raw = "json"
    /\ body.data.t = "obj"
    /\ \/ ~body.data.has_message
       \/ body.data.message.t = "null"
       \/ body.data.message.t = "str" /\ Blank(body.data.message.v)

Answered(r, status, field) ==
    /\ r.resp.handled
    /\ r.resp.status = status
    /\ DOMAIN r.resp.json = {field}

\* ------------------------------------------------------------------------
\* C1: once the module body has run, the backend follows the decision table:
\* a requested value other than simple, openai, gemini gives the rule-based
\* strategy; openai gives it when the library is missing or the key is empty
\* or absent, and gives OpenAI otherwise; the same for gemini; and every
\* request that is dispatched goes to exactly that strategy.
\* ------------------------------------------------------------------------
C1_Table ==
    /\ Requested \notin {S_simple, S_openai, S_gemini} => Selected = "simple"
    /\ Requested = S_openai /\ ~openai_available => Selected = "simple"
    /\ Requested = S_openai /\ openai_available /\ ~NonEmptyCredential(env.OPENAI_API_KEY)
         => Selected = "simple"
    /\ Requested = S_openai /\ openai_available /\ NonEmptyCredential(env.OPENAI_API_KEY)
         => Selected = "openai"
    /\ Requested = S_gemini /\ ~gemini_available => Selected = "simple"
    /\ Requested = S_gemini /\ gemini_available /\ ~NonEmptyCredential(env.GEMINI_API_KEY)
         => Selected = "simple"
    /\ Requested = S_gemini /\ gemini_available /\ NonEmptyCredential(env.GEMINI_API_KEY)
         => Selected = "gemini"

C1_DecisionTable ==
    Started =>
      /\ C1_Table
      /\ \A i \in Workers : reqs[i].invoked # {} => reqs[i].invoked = {Selected}

\* a request was dispatched to OpenAI although an empty Gemini key is set too
C1_Witness ==
    /\ env.CHATBOT_BACKEND = S_OpenAI
    /\ env.GEMINI_API_KEY = <<>>
    /\ reqs[1].pc = "done"
    /\ reqs[1].invoked = {"openai"}

\* ------------------------------------------------------------------------
\* C2: after startup the backend is a provider only if that provider's
\* library was loadable and its credential non-empty, and no step taken
\* after startup changes the backend or what it was resolved from.
\* ------------------------------------------------------------------------
C2_ProviderOnlyIfConfigured ==
    Started =>
      /\ BACKEND = S_openai => openai_available /\ NonEmptyCredential(env.OPENAI_API_KEY)
      /\ BACKEND = S_gemini => gemini_available /\ NonEmptyCredential(env.GEMINI_API_KEY)

C2_ResolvedOnce ==
    /\ []C2_ProviderOnlyIfConfigured
    /\ [][Started => BACKEND' = BACKEND /\ config' = config /\ genai_client' = genai_client]_vars

\* a request under Gemini has failed and the backend is still Gemini
C2_Witness ==
    /\ BACKEND = S_gemini
    /\ reqs[1].pc = "done"
    /\ reqs[1].resp.status = 500
    /\ reqs[1].outcome.kind = "raise"

\* ------------------------------------------------------------------------
\* C3: a body that is not JSON is answered 400 "Invalid JSON body", a JSON
\* object whose message is missing, empty or blank is answered 400 "No
\* message provided", and neither reaches a reply strategy.
\* ------------------------------------------------------------------------
C3_InvalidInputRejected ==
    \A i \in Workers :
      LET r == reqs[i]
      IN /\ r.pc # "idle" /\ r.body.raw # "json" =>
              /\ r.invoked = {} /\ r.calls = 0 /\ r.pc # "calling"
              /\ r.pc = "done" => r.resp = Jsonify([error |-> ERR_INVALID_JSON], 400)
         /\ r.pc # "idle" /\ NoMessageBody(r.body) =>
              /\ r.invoked = {} /\ r.calls = 0 /\ r.pc # "calling"
              /\ r.pc = "done" => r.resp = Jsonify([error |-> ERR_NO_MESSAGE], 400)

\* a message of blanks has been rejected
C3_Witness ==
    /\ reqs[1].pc = "done"
    /\ reqs[1].body = JsonBody(JObj(JStr(<<" ", " ">>)))
    /\ reqs[1].resp.status = 400

\* ------------------------------------------------------------------------
\* C4 as stated: when the provider call raises, the request ends with 500
\* and an error field that is non-empty and is the exception's description.
\* ------------------------------------------------------------------------
C4_ErrorNonEmpty ==
    \A i \in Workers :
      LET r == reqs[i]
      IN r.pc = "done" /\ r.outcome.kind = "raise" =>
           /\ Answered(r, 500, "error")
           /\ r.resp.json.error # <<>>
           /\ r.resp.json.error = r.outcome.text

\* C4 as amended: when the provider call raises, the request ends handled,
\* with 500 and a body whose only field, error, is exactly the exception's
\* description, empty when the exception has none.
C4_ErrorIsDescription ==
    \A i \in Workers :
      LET r == reqs[i]
      IN r.pc = "done" /\ r.outcome.kind = "raise" =>
           /\ Answered(r, 500, "error")
           /\ r.resp.json.error = r.outcome.text

\* an OpenAI call has raised an exception without a message
C4_Witness ==
    /\ reqs[1].pc = "done"
    /\ reqs[1].sent.api = "openai"
    /\ reqs[1].outcome = [kind |-> "raise", text |-> <<>>]
    /\ reqs[1].resp.status = 500

\* ------------------------------------------------------------------------
\* C5: a valid request under a provider calls that provider exactly once and
\* enters no other strategy; when the call raises the request ends with the
\* one failure response and no reply.
\* ------------------------------------------------------------------------
C5_OneCallNoFallback ==
    \A i \in Workers :
      LET r == reqs[i]
      IN /\ r.calls <= 1
         /\ r.pc \in {"calling", "done"} /\ ValidBody(r.body) /\ Selected # "simple" =>
              /\ r.calls = 1
              /\ r.invoked = {Selected}
              /\ r.pc = "done" /\ r.outcome.kind = "raise" =>
                   /\ Answered(r, 500, "error")
                   /\ "simple" \notin r.invoked

\* a Gemini call has failed after one call
C5_Witness ==
    /\ reqs[1].pc = "done"
    /\ reqs[1].invoked = {"gemini"}
    /\ reqs[1].calls = 1
    /\ reqs[1].outcome.kind = "raise"
    /\ reqs[1].body = JsonBody(JObj(JStr(KW_hi)))

\* ------------------------------------------------------------------------
\* C6: the rule-based strategy answers by the first rule, in the order
\* greeting, courses, assignment, help, whose keyword the lower-cased
\* message contains, and with the fallback reply, which names courses,
\* assignments and login, when none does; it always answers 200.
\* ------------------------------------------------------------------------
Trimmed(r) == Lower(Strip(r.body.data.message.v))

C6_FirstRuleWins ==
    \A i \in Workers :
      LET r == reqs[i]
          has(kw) == Contains(Trimmed(r), kw)
          greeting == has(KW_hello) \/ has(KW_hi)
          courses == has(KW_course)
          assignment == has(KW_assignment)
          help == has(KW_help)
      IN r.pc = "done" /\ r.invoked = {"simple"} =>
           /\ Answered(r, 200, "reply")
           /\ greeting => r.resp.json.reply = REPLY_GREETING
           /\ ~greeting /\ courses => r.resp.json.reply = REPLY_COURSES
           /\ ~greeting /\ ~courses /\ assignment => r.resp.json.reply = REPLY_ASSIGNMENT
           /\ ~greeting /\ ~courses /\ ~assignment /\ help => r.resp.json.reply = REPLY_HELP
           /\ ~greeting /\ ~courses /\ ~assignment /\ ~help =>
                /\ r.resp.json.reply = REPLY_FALLBACK
                /\ Contains(r.resp.json.reply, KW_courses)
                /\ Contains(r.resp.json.reply, KW_assignments)
                /\ Contains(r.resp.json.reply, KW_login)
           /\ r.body = JsonBody(JObj(JStr(M_precedence))) => r.resp.json.reply = REPLY_GREETING
           /\ r.body = JsonBody(JObj(JStr(M_courses))) => r.resp.json.reply = REPLY_COURSES
           /\ r.body = JsonBody(JObj(JStr(M_none))) => r.resp.json.reply = REPLY_FALLBACK

\* "hello, I need help with an assignment" has been answered with the greeting
C6_Witness ==
    /\ reqs[1].pc = "done"
    /\ reqs[1].invoked = {"simple"}
    /\ reqs[1].body = JsonBody(JObj(JStr(M_precedence)))
    /\ reqs[1].resp.json.reply = REPLY_GREETING

\* ------------------------------------------------------------------------
\* C7: the Gemini reply is the direct text when that is non-empty; else the
\* text of the first content item of the first output element when the
\* response has that structure; else the string form of the response, which
\* is a non-empty text; in each case the request ends with 200.
\* ------------------------------------------------------------------------
HasDirectText(response) ==
    response.has_text /\ response.text # None /\ response.text # <<>>

HasNestedText(response) ==
    /\ response.output.k \in {"list", "tuple"}
    /\ response.output.items # <<>>
    /\ response.output.items[1].dict
    /\ response.output.items[1].has_content
    /\ response.output.items[1].content.k = "list"
    /\ response.output.items[1].content.items # <<>>
    /\ response.output.items[1].content.items[1].dict
    /\ response.output.items[1].content.items[1].has_text

CarriesStyle(sent) ==
    IF sent.api = "openai"
    THEN \E k \in DOMAIN sent.messages :
           sent.messages[k].role = "system" /\ sent.messages[k].content = system_prompt
    ELSE Contains(sent.contents, system_prompt) \/ "system_instruction" \in DOMAIN sent.config

CarriesUserMessage(sent, user_message) ==
    IF sent.api = "openai"
    THEN \E k \in DOMAIN sent.messages :
           sent.messages[k].role = "user" /\ sent.messages[k].content = user_message
    ELSE Contains(sent.contents, user_message)

C8_StyleInEveryProviderRequest ==
    \A i \in Workers :
      reqs[i].sent # NoRequest =>
        /\ CarriesUserMessage(reqs[i].sent, reqs[i].user_message)
        /\ CarriesStyle(reqs[i].sent)

\* ------------------------------------------------------------------------
\* C9: with several requests in flight, every finished request has the
\* outcome its own body, the backend and its own provider result determine,
\* and a step of one worker changes neither another worker's request nor
\* the backend.
\* ------------------------------------------------------------------------
\* the body is a JSON object whose message is 0, false or an empty list
FalseMessageBody(body) ==
    /\ body.data.t = "obj"
    /\ body.data.has_message
    /\ body.data.message \in {JNum("0"), JBool("false"), JList(<<>>)}

\* a completion without a first choice, without its message or without content
MalformedCompletion(o) ==
    \/ o.choices = <<>>
    \/ ~o.choices[1].has_message
    \/ o.choices[1].content = None

ExpectedOutcome(r) ==
    IF r.body.raw # "json" THEN <<400, {"error"}>>
    ELSE IF NoMessageBody(r.body) \/ FalseMessageBody(r.body) THEN <<400, {"error"}>>
    ELSE IF ~ValidBody(r.body) THEN <<500, {}>>
    ELSE IF Selected = "simple" THEN <<200, {"reply"}>>
    ELSE IF r.outcome.kind = "raise" THEN <<500, {"error"}>>
    ELSE IF r.sent.api = "openai" /\ MalformedCompletion(r.outcome) THEN <<500, {"error"}>>
    ELSE <<200, {"reply"}>>

C9_OwnOutcome ==
    \A i \in Workers :
      reqs[i].pc = "done" =>
        <<reqs[i].resp.status, DOMAIN reqs[i].resp.json>> = ExpectedOutcome(reqs[i])

C9_Independent ==
    /\ []C9_OwnOutcome
    /\ [][/\ Started => BACKEND' = BACKEND /\ genai_client' = genai_client
          /\ \A i, j \in Workers : i # j /\ reqs'[i] # reqs[i] => reqs'[j] = reqs[j]]_vars

\* one request has failed in the provider and another has been answered
C9_Witness ==
    /\ reqs[1].pc = "done"
    /\ reqs[1].outcome.kind = "raise"
    /\ reqs[1].resp.status = 500
    /\ reqs[2].pc = "done"
    /\ reqs[2].outcome.kind = "resp"
    /\ reqs[2].resp.status = 200

\* ------------------------------------------------------------------------
\* C10 as stated: every request ends handled, with 200 and a reply only,
\* 400 and an error only, or 500 and an error only.
\* ------------------------------------------------------------------------
C10_AlwaysHandled ==
    \A i \in Workers :
      reqs[i].pc = "done" =>
        \/ Answered(reqs[i], 200, "reply")
        \/ Answered(reqs[i], 400, "error")
        \/ Answered(reqs[i], 500, "error")
====
